---- MODULE Spec2Model ----
(***************************************************************************)
(* Sticky session/flow registry and event ingest of the validation server  *)
(* (json_server/validation_server.js).                                     *)
(*                                                                         *)
(* The registry is the JavaScript object `state.sessions`; a session's     *)
(* flows are a plain object literal `{}`, so a lookup `s.flows[flowId]`    *)
(* also finds the members inherited from Object.prototype.  Session and    *)
(* flow objects live on the heap: an ingest suspended at an `await` keeps  *)
(* the objects it captured at entry even after they left the registry.     *)
(***************************************************************************)
EXTENDS Integers, Sequences, FiniteSets, TLC

(***************************************************************************)
(* Bounds of the model.  A behaviour runs under one record of limits       *)
(* (variable `limits`, fixed by the initial state): Spec is the widest,    *)
(* SpecFlows and SpecHistory keep to one session id, SpecSessions to one   *)
(* flow object and one clock reading.                                      *)
(***************************************************************************)
MaxSessions  == 2     \* session ids randomUUID() hands out
MaxTime      == 2     \* distinct clock readings (milliseconds)
MaxFlows     == 2     \* flow objects alive at one time
MaxPayloads  == 1     \* payload ids randomUUID() hands out
FewSessions  == 1     \* session ids handed out under SpecFlows, SpecHistory
FewFlows     == 1     \* flow objects alive under SpecSessions
FewTime      == 1     \* clock readings under SpecSessions
MaxCandidates == 3    \* schema paths one validation tries
MaxErrors    == 2     \* errors one schema reports for one payload
MaxVersions  == 2     \* contents a schema file has over a run
MaxRequests  == 3     \* requests that pass through the tee-proxy
MaxLoads     == 4     \* getValidatorForFlow calls under SpecPlugin
QueryPayloads == 2     \* ingests under SpecQuery, suspended ones included
MaxRefs      == 2     \* references in an array selectSchema returns

(***************************************************************************)
(* Values.                                                                 *)
(***************************************************************************)
NullId   == 0                 \* current.sessionId = null
NoTime   == 0                 \* endedAt = null (or undefined)
NullFlow == "<null>"          \* current.flowId = null
Absent   == "<absent>"        \* a body field that is not there (undefined)

UnknownId == 1000000          \* an id no session ever had

\* The characters of the flow ids the requests of the model carry.
FlowIdChars ==
  [ a           |-> <<"a">>,
    b_1         |-> <<"b", "_", "1">>,
    constructor |-> <<"c","o","n","s","t","r","u","c","t","o","r">> ]
    @@ ("a-b" :> <<"a", "-", "b">>) @@ ("" :> <<>>)

FlowIdInputs == DOMAIN FlowIdChars \cup {Absent}
PlainFlowIds == {"a", "a-b", "", Absent}
NameInputs   == {Absent, "Checkout"}
Payloads     == {"p1"}

\* Keys every object literal inherits from Object.prototype and that match
\* the flow id pattern; "constructor" stands for all of them.
ProtoKeys == {"constructor"}

WordChars ==
  { "a","b","c","d","e","f","g","h","i","j","k","l","m",
    "n","o","p","q","r","s","t","u","v","w","x","y","z",
    "A","B","C","D","E","F","G","H","I","J","K","L","M",
    "N","O","P","Q","R","S","T","U","V","W","X","Y","Z",
    "0","1","2","3","4","5","6","7","8","9","_" }

VARIABLES
  limits,        \* the bounds and request alphabets of this behaviour
  heap,          \* session objects alive: id -> [createdAt, endedAt, flows]
  registry,      \* the keys of state.sessions
  current,       \* [sessionId, flowId], the sticky pointers
  protoEndedAt,  \* endedAt property written onto an inherited member
  inflight,      \* ingests suspended at an await: slot -> request or NoReq
  now,           \* the last clock reading
  issuedSessions,\* session ids handed out so far
  issuedPayloads,\* payload ids handed out so far
  res,           \* the last response sent (or the fault that ended a request)
  schemaPaths,   \* validator: the candidate schemas resolved for the payload
  ajvErrors,     \* validator: schema path -> errors its compiled form reports
  customRule,    \* validator: what the plugin's validate() returns
  validation,    \* validator: the result of validate(payload, ctx), if any
  ruleCalls,     \* validator: calls of the plugin's validate() so far
  flowDir,       \* resolver: the listing of validators/flows/<flowId>
  commonDir,     \* resolver: the listing of validators/common/schemas
  selection,     \* resolver: what the plugin's selectSchema() returns
  payloadType,   \* resolver: the payload's type field
  disk,          \* schema path -> the version of the file's content
  CACHE,         \* schema path -> the version its cached compiled form is of
  compiled,      \* schema path -> the version the last validation ran against
  pluginDisk,    \* plugin file of the flow -> the version of its code (0: no file)
  requireCache,  \* plugin file -> the version of the module require() holds
  mod,           \* the module the last getValidatorForFlow call bound
  proxy,         \* tee-proxy: request -> [mirror, primary], how far each has got
  seen           \* what ctx.findEvents gave the rule of each suspended ingest

\* what a later new Date() can read
Later(t) == t..limits.time

\* the validator's own state
engine == <<schemaPaths, ajvErrors, customRule, validation, ruleCalls,
           flowDir, commonDir, selection, payloadType, disk, CACHE, compiled,
           pluginDisk, requireCache, mod, proxy>>

vars == <<limits, heap, registry, current, protoEndedAt, inflight, now,
          issuedSessions, issuedPayloads, res, engine, seen>>

NoReq == [sessionId |-> NullId, flowId |-> NullFlow, payload |-> Absent]

(***************************************************************************)
(* Helpers                                                                 *)
(***************************************************************************)
\* A pattern that lets every id through.
FlowIdPatternOK_Loose(str) == TRUE

\* /^[A-Za-z0-9_]+$/.test(str || "")
FlowIdPatternOK(str) ==
  LET cs == IF str = Absent THEN <<>> ELSE FlowIdChars[str]
  IN  Len(cs) >= 1 /\ \A i \in 1..Len(cs) : cs[i] \in WordChars

\* A test that takes every id for present.
Falsy_Never(str) == FALSE

\* !flowId
Falsy(str) == str = Absent \/ str = ""

\* state.sessions[sessionId] is truthy
HasSession(reg, sessionId) == sessionId \in reg

\* What s.flows[flowId] evaluates to: "own" (a flow of the session), "proto"
\* (a member inherited from Object.prototype) or "undefined".
FlowLookup(s, flowId) ==
  IF flowId \in DOMAIN s.flows THEN "own"
  ELSE IF flowId \in ProtoKeys THEN "proto"
  ELSE "undefined"

\* getFlow(sessionId, flowId) returns instead of throwing 404
HasFlow(h, reg, sessionId, flowId) ==
  /\ HasSession(reg, sessionId)
  /\ FlowLookup(h[sessionId], flowId) # "undefined"

NewFlow(flowId, name, t) ==
  [ name      |-> IF Falsy(name) THEN flowId ELSE name,
    createdAt |-> t,
    endedAt   |-> NoTime,
    events    |-> <<>> ]

\* A start that makes the flow anew each time.
ensureFlow_Resets(h, sessionId, flowId, name, t) ==
  IF flowId \in DOMAIN h[sessionId].flows
  THEN [h EXCEPT ![sessionId].flows[flowId] = NewFlow(flowId, name, t)]
  ELSE [h EXCEPT ![sessionId].flows = @ @@ (flowId :> NewFlow(flowId, name, t))]

\* A start that empties the history of a flow it finds.
ensureFlow_ClearsEvents(h, sessionId, flowId, name, t) ==
  IF flowId \in DOMAIN h[sessionId].flows
  THEN [h EXCEPT ![sessionId].flows[flowId].events = <<>>]
  ELSE ensureFlow_Resets(h, sessionId, flowId, name, t)

\* ensureFlow(sessionId, flowId, name), the session known to exist
ensureFlow(h, sessionId, flowId, name, t) ==
  IF FlowLookup(h[sessionId], flowId) = "undefined"
  THEN [h EXCEPT ![sessionId].flows = @ @@ (flowId :> NewFlow(flowId, name, t))]
  ELSE h

\* The flow objects on the heap.
FlowCount(h) ==
  Cardinality({ <<sid, fid>> \in (DOMAIN h) \X (DOMAIN FlowIdChars) :
                  fid \in DOMAIN h[sid].flows })

\* if (!x.endedAt) x.endedAt = new Date().toISOString()
EndIfUnset(endedAt, t) == IF endedAt = NoTime THEN t ELSE endedAt

\* Objects no in-flight ingest and no registry key refers to are garbage.
Live(h, reg, infl) ==
  LET keep == reg \cup { infl[i].sessionId : i \in DOMAIN infl }
  IN  [ sid \in (DOMAIN h) \cap keep |-> h[sid] ]

\* A response: the HTTP status, the kind of error its body names and the
\* payloadId it carries (0: none).  status 0: no response was sent.
Response(status, error) == [status |-> status, error |-> error, payloadId |-> 0]

\* What getValidatorForFlow(...).validate(payload, ctx) can do: return a
\* result, throw a ValidationError, or throw any other error.
ValidatorOutcomes ==
  [ valid   |-> [kind |-> "result", valid |-> TRUE, schemaErrors |-> <<>>,
                 customErrors |-> <<>>, message |-> ""],
    invalid |-> [kind |-> "result", valid |-> FALSE,
                 schemaErrors |-> <<"must be >= 0">>,
                 customErrors |-> <<>>, message |-> ""],
    refused |-> [kind |-> "ValidationError", valid |-> FALSE, schemaErrors |-> <<>>,
                 customErrors |-> <<>>, message |-> "Valid Login Required"],
    broken  |-> [kind |-> "Error", valid |-> FALSE, schemaErrors |-> <<>>,
                 customErrors |-> <<>>, message |-> "boom"] ]

PlainOutcomes == {"valid"}

\* The rule of an ingest has not called ctx.findEvents.
NotAsked == [kind |-> "none"]

\* The where option of ctx.findEvents: none, or ev => ev.ValidationStatus === "Valid"
Wheres == {Absent, "Valid"}

\* A query that misses the newest record.
findEvents_SkipsLast(h, reg, req, fid, where) ==
  IF ~HasSession(reg, req.sessionId) \/ FlowLookup(h[req.sessionId], fid) # "own"
  THEN [kind |-> "throws", error |-> "UnknownFlow"]
  ELSE LET evs == h[req.sessionId].flows[fid].events
       IN  [ kind |-> "returned", flowId |-> fid, where |-> where,
             events |-> SubSeq(evs, 1, Len(evs) - 1) ]

\* The orders Object.values(s.flows) can list the flows of a session in.
Orders(s) ==
  { o \in [1..Cardinality(DOMAIN s.flows) -> DOMAIN s.flows] :
      \A j, k \in DOMAIN o : j # k => o[j] # o[k] }

\* The events of the flows fids of session s that pass the filter, flow
\* after flow.
RECURSIVE EventsOf(_, _, _)
EventsOf(s, fids, where) ==
  IF fids = <<>> THEN <<>>
  ELSE SelectSeq(s.flows[Head(fids)].events,
                 LAMBDA ev : where = Absent \/ ev.ValidationStatus = where)
       \o EventsOf(s, Tail(fids), where)

\* A query that reads the flows of the session that is current at the call.
findAllEvents_CurrentSession(h, req, order, where) ==
  IF current.sessionId \in DOMAIN h
  THEN LET o == CHOOSE x \in Orders(h[current.sessionId]) : TRUE
       IN  [ kind |-> "returned", flowId |-> Absent, where |-> where,
             events |-> EventsOf(h[current.sessionId], o, where) ]
  ELSE [ kind |-> "returned", flowId |-> Absent, where |-> where, events |-> <<>> ]

\* ctx.findEvents({ where }), lines 296-305, without a flow id: the flows
\* are those of s, the session object captured at entry, in the order
\* Object.values lists them.
findAllEvents(h, req, order, where) ==
  [ kind |-> "returned", flowId |-> Absent, where |-> where,
    events |-> EventsOf(h[req.sessionId], order, where) ]

\* ctx.findEvents({ flowId: fid, where }), lines 296-305, with a flow id:
\* getFlow(sessionId, fid) looks the session and the flow up in the
\* registry as it is at the call and throws when either is not there; the
\* events of that flow which pass the filter are returned in their order.
findEvents(h, reg, req, fid, where) ==
  IF ~HasSession(reg, req.sessionId)
  THEN [kind |-> "throws", error |-> "UnknownSession"]
  ELSE IF FlowLookup(h[req.sessionId], fid) = "undefined"
  THEN [kind |-> "throws", error |-> "UnknownFlow"]
  ELSE IF FlowLookup(h[req.sessionId], fid) = "proto"
  THEN [kind |-> "throws", error |-> "TypeError"]
  ELSE [ kind |-> "returned", flowId |-> fid, where |-> where,
         events |-> SelectSeq(h[req.sessionId].flows[fid].events,
                              LAMBDA ev : where = Absent \/ ev.ValidationStatus = where) ]

(***************************************************************************)
(* The validator (validators/index.js): validate(payload, ctx) of the      *)
(* object getValidatorForFlow returns, from the candidate schema paths on. *)
(***************************************************************************)
\* The schema files the candidates are taken from.
Schemas == {"A.schema.json", "B.schema.json"}

\* An Ajv error object, told apart by its keyword.
ErrorKinds == {"required", "type"}

SeqsUpTo(S, n) == UNION { [1..k -> S] : k \in 0..n }

\* What a compiled schema can leave in validate.errors for one payload; the
\* empty list stands for a payload the schema accepts (validate returns
\* errors === 0, so a rejection carries at least one error).
ErrorLists == SeqsUpTo(ErrorKinds, MaxErrors)

\* What mod.validate(payload, ctx) returns: the plugin has no validate, or
\* it returns an array, a string, or anything else (undefined, true, ...).
CustomRules ==
  { [kind |-> "absent", messages |-> <<>>],
    [kind |-> "array",  messages |-> <<>>],
    [kind |-> "array",  messages |-> <<"Valid Login Required", "Cart is empty">>],
    [kind |-> "string", messages |-> <<"Valid Login Required">>],
    [kind |-> "other",  messages |-> <<>>] }

\* mod.validate(payload, ctx) throws a ValidationError, the validation
\* domain's own error.
ThrowingRules ==
  { [kind |-> "throws", messages |-> <<"Valid Login Required">>] }

NoResult == [kind |-> "none"]

\* compileSchema(ajv, schemaPath), lines 635-641: the version of the content
\* the compiled form returned is of
compileSchema(cache, dsk, schemaPath) ==
  IF schemaPath \in DOMAIN cache THEN cache[schemaPath] ELSE dsk[schemaPath]

\* lines 639 and 645: CACHE after the candidates were compiled
CacheAfter(cache, dsk, paths) ==
  LET tried == { paths[i] : i \in 1..Len(paths) }
  IN  [ sp \in (DOMAIN cache) \cup tried |-> compileSchema(cache, dsk, sp) ]

\* line 645: the compiled forms tryValidate ran the payload against
CompiledFor(cache, dsk, paths) ==
  [ sp \in { paths[i] : i \in 1..Len(paths) } |-> compileSchema(cache, dsk, sp) ]

\* tryValidate(ajv, payload, schemaPaths), lines 643-651
tryValidate(errorsOf, paths) ==
  [ i \in 1..Len(paths) |->
      LET ok == errorsOf[paths[i]] = <<>>
      IN  [ schemaPath |-> paths[i], ok |-> ok,
            errors |-> IF ok THEN <<>> ELSE errorsOf[paths[i]] ] ]

\* A pick of the last of the candidates with the fewest errors.
FewestErrorsFirst_LastOfTies(results) ==
  LET n    == Len(results)
      least == CHOOSE i \in 1..n :
                 /\ \A j \in 1..n : Len(results[i].errors) <= Len(results[j].errors)
                 /\ \A j \in (i+1)..n : Len(results[j].errors) > Len(results[i].errors)
  IN  <<results[least]>> \o [k \in 1..(n-1) |-> results[IF k < least THEN k ELSE k + 1]]

\* results.slice().sort((a, b) => a.errors.length - b.errors.length), line
\* 750: Array.prototype.sort is stable, equal counts keep their order.
RECURSIVE FewestErrorsFirst(_)
FewestErrorsFirst(results) ==
  IF Len(results) <= 1 THEN results
  ELSE LET rest   == FewestErrorsFirst(Tail(results))
           x      == Head(results)
           before == { k \in 0..Len(rest) :
                         \A j \in 1..k : Len(rest[j].errors) < Len(x.errors) }
           at     == CHOOSE k \in before : \A m \in before : m <= k
       IN  SubSeq(rest, 1, at) \o <<x>> \o SubSeq(rest, at + 1, Len(rest))

\* A validate that sets the rule's answer aside.
customErrorsOf_Dropped(rule) == <<>>

\* lines 756-761: the custom errors taken from what mod.validate returned
customErrorsOf(rule) ==
  IF rule.kind \in {"array", "string"} THEN rule.messages ELSE <<>>

\* A check that takes every payload for accepted.
okAny_Always(results) == TRUE

\* line 748: results.some(r => r.ok)
okAny(results) == \E i \in 1..Len(results) : results[i].ok

\* A rule that is asked only about payloads the schemas accepted.
customCalls_OnlyIfPassed(rule, results) ==
  IF rule.kind = "absent" \/ ~okAny(results) THEN 0 ELSE 1

\* lines 757-758: if (mod.validate) ... mod.validate(payload, ctx)
customCalls(rule, results) == IF rule.kind = "absent" THEN 0 ELSE 1

\* validate(payload, ctx), lines 748-764, the schema paths resolved; a
\* ValidationError thrown by mod.validate leaves validate as it is
validate(errorsOf, paths, rule) ==
  LET results      == tryValidate(errorsOf, paths)
      schemaErrors == IF okAny(results) THEN <<>>
                      ELSE FewestErrorsFirst(results)[1].errors
      customErrors == customErrorsOf(rule)
  IN  IF rule.kind = "throws"
      THEN [ kind |-> "ValidationError", valid |-> FALSE, schemaErrors |-> <<>>,
             customErrors |-> <<>>, message |-> rule.messages[1] ]
      ELSE
      [ kind |-> "result",
        valid |-> (Len(schemaErrors) = 0) /\ (Len(customErrors) = 0),
        schemaErrors |-> schemaErrors,
        customErrors |-> customErrors,
        message |-> "" ]

(***************************************************************************)
(* Schema resolution (validators/index.js): resolveRefToPath and           *)
(* resolveSchemaPaths over the two schema directories.                     *)
(***************************************************************************)
\* The files a schema directory can hold, with their extensions.
FileExt ==
  ("A.schema.json" :> ".json") @@ ("0.schema.json" :> ".json") @@ ("notes.txt" :> ".txt")

FileNames == DOMAIN FileExt

\* A directory listing: readdirSync gives each name once, in the order of
\* the file system.
Listings ==
  { l \in SeqsUpTo(FileNames, Cardinality(FileNames)) :
      \A i, j \in 1..Len(l) : i # j => l[i] # l[j] }

\* path.join(flowDir, name), path.join(commonDir, name)
FlowPath(name)   == <<"<flowDir>", name>>
CommonPath(name) == <<"<commonDir>", name>>

\* null
NoPath == <<>>

\* A schema reference, split at its slashes: "A.schema.json",
\* "@common/A.schema.json" and the absolute "/srv/A.schema.json".
Refs ==
  { <<"A.schema.json">>, <<"@common", "A.schema.json">>, <<"", "srv", "A.schema.json">> }

\* What mod.selectSchema(payload, ctx) returns: there is no selectSchema,
\* or it returns null, one reference, or an array of references.
Selections ==
  { [kind |-> "absent", refs |-> <<>>], [kind |-> "null", refs |-> <<>>] }
  \cup { [kind |-> "string", refs |-> <<r>>] : r \in Refs }
  \cup { [kind |-> "array", refs |-> rs] : rs \in SeqsUpTo(Refs, MaxRefs) }

\* payload.type: not there, a string, or a number; text is what the
\* template literal `${payload.type}` makes of it.
NoType == [json |-> "undefined", text |-> ""]

PayloadTypes ==
  { NoType, [json |-> "string", text |-> "A"], [json |-> "number", text |-> "0"] }

\* `${payload.type}.schema.json`
TypeFile == ("A" :> "A.schema.json") @@ ("0" :> "0.schema.json") @@ ("" :> ".schema.json")

\* fs.existsSync(path.join(dir, name))
InDir(dir, name) == \E i \in 1..Len(dir) : dir[i] = name

\* listSchemaFiles(dir), lines 628-633, as names
IsSchemaFile(name) == FileExt[name] = ".json"

listSchemaFiles(dir) == SelectSeq(dir, IsSchemaFile)

\* A lookup that knows the flow's own directory only.
resolveRefToPath_FlowOnly(ref, flow, common) ==
  IF ref = <<>> THEN NoPath
  ELSE IF InDir(flow, ref[Len(ref)]) THEN FlowPath(ref[Len(ref)])
  ELSE NoPath

\* resolveRefToPath(ref, flowDir, commonDir), lines 669-680
resolveRefToPath(ref, flow, common) ==
  IF ref = <<>> THEN NoPath
  ELSE IF Head(ref) = "" THEN ref
  ELSE IF Head(ref) = "@common" /\ Len(ref) >= 2 THEN CommonPath(ref[2])
  ELSE IF InDir(flow, ref[1]) THEN FlowPath(ref[1])
  ELSE IF InDir(common, ref[1]) THEN CommonPath(ref[1])
  ELSE NoPath

\* if (payload && payload.type)
Truthy(type) ==
  /\ type.json # "undefined"
  /\ ~(type.json = "number" /\ type.text = "0")
  /\ ~(type.json = "string" /\ type.text = "")

IsPath(pth) == pth # NoPath

\* A selection that stops at the first reference that resolves.
SelectedPaths_FirstOnly(sel, flow, common) ==
  LET found == SelectSeq([i \in 1..Len(sel.refs) |->
                            resolveRefToPath(sel.refs[i], flow, common)], IsPath)
  IN  IF found = <<>> THEN <<>> ELSE <<found[1]>>

\* lines 684-692: step 1, the plugin's pick
SelectedPaths(sel, flow, common) ==
  IF sel.kind \in {"string", "array"}
  THEN SelectSeq([i \in 1..Len(sel.refs) |->
                    resolveRefToPath(sel.refs[i], flow, common)], IsPath)
  ELSE <<>>

\* lines 695-702: step 2, the payload.type heuristic
TypePaths(type, flow, common) ==
  IF ~Truthy(type) THEN <<>>
  ELSE IF InDir(flow, TypeFile[type.text]) THEN <<FlowPath(TypeFile[type.text])>>
  ELSE IF InDir(common, TypeFile[type.text]) THEN <<CommonPath(TypeFile[type.text])>>
  ELSE <<>>

\* A fallback that adds the shared schemas to the flow's.
DirectoryPaths_Both(flow, common) ==
  [i \in 1..Len(listSchemaFiles(flow)) |-> FlowPath(listSchemaFiles(flow)[i])]
  \o [i \in 1..Len(listSchemaFiles(common)) |-> CommonPath(listSchemaFiles(common)[i])]

\* lines 704-713: steps 3 and 4, the one-file shortcut and try-all
DirectoryPaths(flow, common) ==
  LET flowFiles   == [i \in 1..Len(listSchemaFiles(flow)) |->
                        FlowPath(listSchemaFiles(flow)[i])]
      commonFiles == [i \in 1..Len(listSchemaFiles(common)) |->
                        CommonPath(listSchemaFiles(common)[i])]
  IN  IF Len(flowFiles) = 1 THEN <<flowFiles[1]>>
      ELSE IF Len(flowFiles) = 0 /\ Len(commonFiles) = 1 THEN <<commonFiles[1]>>
      ELSE IF Len(flowFiles) > 0 THEN flowFiles
      ELSE commonFiles

NoSchemaFound == "No schema found in flow or common schema directories"

\* A resolution that falls back on a schema of its own.
resolveSchemaPaths_Default(flow, common, type, sel) ==
  IF DirectoryPaths(flow, common) # <<>> THEN DirectoryPaths(flow, common)
  ELSE <<CommonPath("A.schema.json")>>

\* resolveSchemaPaths(flowDir, commonDir, payload, ctx, mod), lines 682-717:
\* the paths, or <<>> where the code throws the ValidationError
resolveSchemaPaths(flow, common, type, sel) ==
  IF SelectedPaths(sel, flow, common) # <<>> THEN SelectedPaths(sel, flow, common)
  ELSE IF TypePaths(type, flow, common) # <<>> THEN TypePaths(type, flow, common)
  ELSE DirectoryPaths(flow, common)

\* Every path a resolution can give.
AllPaths ==
  { FlowPath(n) : n \in FileNames } \cup { CommonPath(n) : n \in FileNames }
  \cup { r \in Refs : Head(r) = "" }

\* Nothing to resolve: no files, no plugin, no type.
ResolverIdle ==
  /\ flowDir = <<>>
  /\ commonDir = <<>>
  /\ selection = [kind |-> "absent", refs |-> <<>>]
  /\ payloadType = NoType

\* line 626: CACHE = new Map()
NothingCompiled ==
  /\ CACHE = << >>
  /\ compiled = << >>

\* loadFlowModule, line 654: the files a flow's plugin is looked for in
PluginFiles == <<"index.js", "custom.js">>

\* What loadFlowModule returns when the flow has no plugin file: {}
NoModule == [file |-> "", version |-> 0]

\* loadFlowModule(flowDir), lines 653-663: the first of index.js, custom.js
\* that exists is handed to require(), which evaluates a file once and
\* returns the module it holds for that file from then on.
loadFlowModule(pdisk, rcache) ==
  IF \E i \in 1..Len(PluginFiles) : pdisk[PluginFiles[i]] # 0
  THEN LET i == CHOOSE j \in 1..Len(PluginFiles) :
                  /\ pdisk[PluginFiles[j]] # 0
                  /\ \A k \in 1..(j-1) : pdisk[PluginFiles[k]] = 0
           p == PluginFiles[i]
       IN  [file |-> p,
            version |-> IF rcache[p] # 0 THEN rcache[p] ELSE pdisk[p]]
  ELSE NoModule

\* How the mirrored copy posted to the validator can end: answered 2xx,
\* answered with an error status, no answer within the 2000 ms timeout,
\* connection refused.
MirrorOutcomes == {"answered", "error", "timeout", "unreachable"}

\* A request the tee-proxy has not received.
NotReceived == [mirror |-> "none", primary |-> "none"]

\* A middleware that waits for the mirrored copy before it calls next().
MirrorMiddleware_Awaits(p) == [mirror |-> "pending", primary |-> "held"]

\* tee-proxy.js lines 12-23: the copy is posted, its promise is left with a
\* catch that swallows every failure, and next() is called at once.
MirrorMiddleware(p) == [mirror |-> "pending", primary |-> "forwarded"]

\* The validator has loaded no plugin; the proxy has received nothing.
NoPlugin ==
  /\ pluginDisk = [p \in {"index.js", "custom.js"} |-> 0]
  /\ requireCache = [p \in {"index.js", "custom.js"} |-> 0]
  /\ mod = [call |-> 0, bound |-> NoModule]
  /\ proxy = [r \in 1..MaxRequests |-> NotReceived]

\* No validation under way.
EngineIdle ==
  /\ schemaPaths = <<>>
  /\ ajvErrors = [sp \in Schemas |-> <<>>]
  /\ customRule = [kind |-> "absent", messages |-> <<>>]
  /\ validation = NoResult
  /\ ruleCalls = 0
  /\ ResolverIdle
  /\ disk = [sp \in Schemas |-> 1]
  /\ NothingCompiled
  /\ NoPlugin

\* The state after the module is loaded, lines 34-37.
Start ==
  /\ heap = << >>
  /\ registry = {}
  /\ current = [sessionId |-> NullId, flowId |-> NullFlow]
  /\ protoEndedAt = [k \in ProtoKeys |-> NoTime]
  /\ inflight = [i \in 1..limits.payloads |-> NoReq]
  /\ now = 1
  /\ issuedSessions = 0
  /\ issuedPayloads = 0
  /\ res = Response(0, "")
  /\ seen = [i \in 1..limits.payloads |-> NotAsked]

\* The widest behaviours: every request alphabet, two sessions.
Init ==
  /\ limits = [ sessions |-> MaxSessions, time |-> MaxTime, flows |-> MaxFlows,
                payloads |-> MaxPayloads,
                flowIds |-> FlowIdInputs, names |-> NameInputs,
                outcomes |-> DOMAIN ValidatorOutcomes ]
  /\ Start
  /\ EngineIdle

\* Flows of one session at a time, two clock readings.
InitFlows ==
  /\ limits = [ sessions |-> FewSessions, time |-> MaxTime, flows |-> MaxFlows,
                payloads |-> MaxPayloads,
                flowIds |-> FlowIdInputs, names |-> NameInputs,
                outcomes |-> PlainOutcomes ]
  /\ Start
  /\ EngineIdle

\* One session, two well-formed flow ids and their histories.
InitHistory ==
  /\ limits = [ sessions |-> FewSessions, time |-> MaxTime, flows |-> MaxFlows,
                payloads |-> MaxPayloads,
                flowIds |-> {"a", "b_1"}, names |-> NameInputs,
                outcomes |-> PlainOutcomes ]
  /\ Start
  /\ EngineIdle

\* Two sessions, two flows, two ingests that can overlap, rules that query.
InitQuery ==
  /\ limits = [ sessions |-> MaxSessions, time |-> FewTime, flows |-> MaxFlows,
                payloads |-> QueryPayloads,
                flowIds |-> {"a", "b_1"}, names |-> {Absent},
                outcomes |-> {"valid", "invalid"} ]
  /\ Start
  /\ EngineIdle

\* Several sessions, one flow each, one clock reading.
InitSessions ==
  /\ limits = [ sessions |-> MaxSessions, time |-> FewTime, flows |-> FewFlows,
                payloads |-> MaxPayloads,
                flowIds |-> PlainFlowIds, names |-> {Absent},
                outcomes |-> PlainOutcomes ]
  /\ Start
  /\ EngineIdle


\* Several sessions and their one flow over two clock readings.
InitLifecycle ==
  /\ limits = [ sessions |-> MaxSessions, time |-> MaxTime, flows |-> FewFlows,
                payloads |-> MaxPayloads,
                flowIds |-> {"a"}, names |-> {Absent},
                outcomes |-> PlainOutcomes ]
  /\ Start
  /\ EngineIdle

\* One validation: any candidate list, any errors, any custom rule.
InitValidate ==
  /\ limits = [ sessions |-> FewSessions, time |-> FewTime, flows |-> FewFlows,
                payloads |-> MaxPayloads,
                flowIds |-> {"a"}, names |-> {Absent},
                outcomes |-> PlainOutcomes ]
  /\ Start
  /\ schemaPaths \in SeqsUpTo(Schemas, MaxCandidates) \ {<<>>}
  /\ ajvErrors \in [Schemas -> ErrorLists]
  /\ customRule \in CustomRules
  /\ validation = NoResult
  /\ ruleCalls = 0
  /\ ResolverIdle
  /\ disk = [sp \in Schemas |-> 1]
  /\ NothingCompiled
  /\ NoPlugin

\* Validations of a payload against schema files that are edited in between.
InitReload ==
  /\ limits = [ sessions |-> FewSessions, time |-> FewTime, flows |-> FewFlows,
                payloads |-> MaxPayloads,
                flowIds |-> {"a"}, names |-> {Absent},
                outcomes |-> PlainOutcomes ]
  /\ Start
  /\ schemaPaths \in SeqsUpTo(Schemas, MaxCandidates) \ {<<>>}
  /\ ajvErrors \in { [sp \in Schemas |-> errs] : errs \in {<<>>, <<"type">>} }
  /\ customRule = [kind |-> "absent", messages |-> <<>>]
  /\ validation = NoResult
  /\ ruleCalls = 0
  /\ ResolverIdle
  /\ disk = [sp \in Schemas |-> 1]
  /\ NothingCompiled
  /\ NoPlugin

\* One resolution and the validation after it: any two listings, any
\* selection, any type; every schema accepts or every schema rejects.
InitResolve ==
  /\ limits = [ sessions |-> FewSessions, time |-> FewTime, flows |-> FewFlows,
                payloads |-> MaxPayloads,
                flowIds |-> {"a"}, names |-> {Absent},
                outcomes |-> PlainOutcomes ]
  /\ Start
  /\ schemaPaths = <<>>
  /\ ajvErrors \in { [pth \in AllPaths |-> errs] : errs \in {<<>>, <<"type", "required">>} }
  /\ customRule \in { [kind |-> "array", messages |-> <<"Valid Login Required">>] }
                     \cup ThrowingRules
  /\ validation = NoResult
  /\ ruleCalls = 0
  /\ flowDir \in Listings
  /\ commonDir \in Listings
  /\ selection \in Selections
  /\ payloadType \in PayloadTypes
  /\ disk = [sp \in AllPaths |-> 1]
  /\ NothingCompiled
  /\ NoPlugin

(***************************************************************************)
(* Sessions (single active)                                                *)
(***************************************************************************)
\* A generator that repeats itself.
randomUUID_Repeats(issued) == 1

\* randomUUID(): an id no earlier call returned
randomUUID(issued) == issued + 1

\* A session that is made with its end already stamped.
NewSession_Ended(t) == [createdAt |-> t, endedAt |-> t, flows |-> << >>]

\* POST /sessions, lines 194-198: the session object
NewSession(t) == [createdAt |-> t, endedAt |-> NoTime, flows |-> << >>]

\* A start that leaves the previous session open.
AutoEndSession_Skipped(h, cur, t) == h

\* POST /sessions, lines 188-192: auto end the current session
AutoEndSession(h, cur, t) ==
  IF cur.sessionId # NullId
  THEN [h EXCEPT ![cur.sessionId].endedAt = EndIfUnset(@, t)]
  ELSE h

\* POST /sessions
StartSession ==
  /\ issuedSessions < limits.sessions
  /\ \E t1 \in Later(now) : \E t2 \in Later(t1) :
       IF current.sessionId # NullId /\ ~HasSession(registry, current.sessionId)
       THEN \* getSession throws, the error handler answers 404
            /\ res' = Response(404, "UnknownSession")
            /\ UNCHANGED <<engine, seen, limits, heap, registry, current, protoEndedAt, inflight, now,
                           issuedSessions, issuedPayloads>>
       ELSE LET sessionId == randomUUID(issuedSessions)
                ended     == AutoEndSession(heap, current, t1)
                created   == (sessionId :> NewSession(t2)) @@ ended
            IN  /\ registry' = registry \cup {sessionId}
                /\ heap' = Live(created, registry', inflight)
                /\ current' = [sessionId |-> sessionId, flowId |-> NullFlow]
                /\ issuedSessions' = issuedSessions + 1
                /\ now' = t2
                /\ res' = Response(200, "")
                /\ UNCHANGED <<engine, seen, limits, protoEndedAt, inflight, issuedPayloads>>

\* An end that forgets the timestamp.
EndCurrentSession_NoStamp(h, cur, t) == h

\* An end that stamps every session there is.
EndCurrentSession_StampsAll(h, cur, t) ==
  [sid \in DOMAIN h |-> [h[sid] EXCEPT !.endedAt = t]]

\* POST /sessions/end, lines 207-210
EndCurrentSession(h, cur, t) == [h EXCEPT ![cur.sessionId].endedAt = t]

\* POST /sessions/end
EndSession ==
    IF current.sessionId = NullId
    THEN /\ res' = Response(409, "NoActiveSession")
         /\ UNCHANGED <<engine, seen, limits, heap, registry, current, protoEndedAt, inflight, now,
                        issuedSessions, issuedPayloads>>
    ELSE IF ~HasSession(registry, current.sessionId)
    THEN /\ res' = Response(404, "UnknownSession")
         /\ UNCHANGED <<engine, seen, limits, heap, registry, current, protoEndedAt, inflight, now,
                        issuedSessions, issuedPayloads>>
    ELSE \E t \in Later(now) :
         /\ heap' = EndCurrentSession(heap, current, t)
         /\ current' = [sessionId |-> NullId, flowId |-> NullFlow]
         /\ now' = t
         /\ res' = Response(200, "")
         /\ UNCHANGED <<engine, seen, limits, registry, protoEndedAt, inflight,
                        issuedSessions, issuedPayloads>>

\* DELETE /sessions/:sessionId, line 229
RemoveSession(reg, sessionId) == reg \ {sessionId}

\* A delete that leaves the pointers alone.
PointersAfterDelete_Keeps(cur, sessionId) == cur

\* DELETE /sessions/:sessionId, lines 230-233
PointersAfterDelete(cur, sessionId) ==
  IF cur.sessionId = sessionId
  THEN [sessionId |-> NullId, flowId |-> NullFlow]
  ELSE cur

\* DELETE /sessions/:sessionId
DeleteSession(sessionId) ==
  /\ registry' = RemoveSession(registry, sessionId)
  /\ heap' = Live(heap, registry', inflight)
  /\ current' = PointersAfterDelete(current, sessionId)
  /\ res' = Response(200, "")
  /\ UNCHANGED <<engine, seen, limits, protoEndedAt, inflight, now, issuedSessions, issuedPayloads>>

\* A clearing that forgets the sessions and keeps the pointers.
ClearAll_KeepsPointers ==
  /\ registry' = {}
  /\ heap' = Live(heap, registry', inflight)
  /\ res' = Response(200, "")
  /\ UNCHANGED <<engine, seen, limits, current, protoEndedAt, inflight, now,
                 issuedSessions, issuedPayloads>>

\* DELETE /state
ClearAll ==
  /\ registry' = {}
  /\ heap' = Live(heap, registry', inflight)
  /\ current' = [sessionId |-> NullId, flowId |-> NullFlow]
  /\ res' = Response(200, "")
  /\ UNCHANGED <<engine, seen, limits, protoEndedAt, inflight, now, issuedSessions, issuedPayloads>>

(***************************************************************************)
(* Flows (single active per current session)                               *)
(***************************************************************************)
\* An auto end that stamps the previous flow again.
AutoEndFlow_Overwrites(h, pe, cur, t) ==
  IF cur.flowId = NullFlow THEN <<h, pe>>
  ELSE IF cur.flowId \in DOMAIN h[cur.sessionId].flows
  THEN <<[h EXCEPT ![cur.sessionId].flows[cur.flowId].endedAt = t], pe>>
  ELSE <<h, [pe EXCEPT ![cur.flowId] = t]>>

\* POST /flows, lines 249-252: auto end the previous flow.  The result is
\* the pair <<heap, protoEndedAt>>: when the previous "flow" is a member
\* inherited from Object.prototype the write lands on that shared object.
AutoEndFlow(h, pe, cur, t) ==
  IF cur.flowId = NullFlow THEN <<h, pe>>
  ELSE IF FlowLookup(h[cur.sessionId], cur.flowId) = "own"
  THEN <<[h EXCEPT ![cur.sessionId].flows[cur.flowId].endedAt = EndIfUnset(@, t)],
         pe>>
  ELSE <<h, [pe EXCEPT ![cur.flowId] = EndIfUnset(@, t)]>>

\* POST /flows
StartFlow(flowId, name) ==
    LET Reject(status, error) ==
          /\ res' = Response(status, error)
          /\ UNCHANGED <<engine, seen, limits, heap, registry, current, protoEndedAt, inflight, now,
                         issuedSessions, issuedPayloads>>
    IN
    IF current.sessionId = NullId
    THEN Reject(409, "NoActiveSession")
    ELSE IF Falsy(flowId)
    THEN Reject(400, "MissingFlowId")
    ELSE IF ~FlowIdPatternOK(flowId)
    THEN Reject(400, "InvalidFlowId")
    ELSE IF current.flowId # NullFlow
            /\ ~HasFlow(heap, registry, current.sessionId, current.flowId)
    THEN Reject(404, "UnknownFlow")
    ELSE IF ~HasSession(registry, current.sessionId)
    THEN Reject(404, "UnknownSession")
    ELSE \E t1 \in Later(now) : \E t2 \in Later(t1) :
         LET ended == AutoEndFlow(heap, protoEndedAt, current, t1)
         IN  /\ FlowLookup(heap[current.sessionId], flowId) = "undefined"
                   => FlowCount(heap) < limits.flows
             /\ heap' = ensureFlow(ended[1], current.sessionId, flowId, name, t2)
             /\ protoEndedAt' = ended[2]
             /\ current' = [current EXCEPT !.flowId = flowId]
             /\ now' = t2
             /\ res' = Response(200, "")
             /\ UNCHANGED <<engine, seen, limits, registry, inflight, issuedSessions, issuedPayloads>>

\* An end that forgets the timestamp.
EndCurrentFlow_NoStamp(h, pe, cur, t) == <<h, pe>>

\* POST /flows/end, lines 264-265: f.endedAt = new Date().toISOString()
EndCurrentFlow(h, pe, cur, t) ==
  IF FlowLookup(h[cur.sessionId], cur.flowId) = "own"
  THEN <<[h EXCEPT ![cur.sessionId].flows[cur.flowId].endedAt = t], pe>>
  ELSE <<h, [pe EXCEPT ![cur.flowId] = t]>>

\* POST /flows/end
EndFlow ==
    LET Reject(status, error) ==
          /\ res' = Response(status, error)
          /\ UNCHANGED <<engine, seen, limits, heap, registry, current, protoEndedAt, inflight, now,
                         issuedSessions, issuedPayloads>>
    IN
    IF current.sessionId = NullId THEN Reject(409, "NoActiveSession")
    ELSE IF current.flowId = NullFlow THEN Reject(409, "NoActiveFlow")
    ELSE IF ~HasFlow(heap, registry, current.sessionId, current.flowId)
    THEN Reject(404, "UnknownFlow")
    ELSE \E t \in Later(now) :
         LET ended == EndCurrentFlow(heap, protoEndedAt, current, t)
         IN  /\ heap' = ended[1]
             /\ protoEndedAt' = ended[2]
             /\ current' = [current EXCEPT !.flowId = NullFlow]
             /\ now' = t
             /\ res' = Response(200, "")
             /\ UNCHANGED <<engine, seen, limits, registry, inflight, issuedSessions, issuedPayloads>>


(***************************************************************************)
(* Event ingest (POST /): runs to its first await, is suspended while the  *)
(* validator is loaded and run, then appends the record and answers.       *)
(***************************************************************************)
\* A rejected promise of the async handler: Express 4 sends no response
\* (status 0), Express 5 hands the error to the error handler.
Unhandled(status) == {0, status}

\* lines 317-334: the verdict the handler keeps
Verdict(out) ==
  IF out.kind = "result"
  THEN [valid |-> out.valid, schemaErrors |-> out.schemaErrors,
        customErrors |-> out.customErrors]
  ELSE IF out.kind = "ValidationError"
  THEN [valid |-> FALSE, schemaErrors |-> <<>>, customErrors |-> <<out.message>>]
  ELSE [valid |-> FALSE, schemaErrors |-> <<>>,
        customErrors |-> <<"Internal validator error">>]

\* A list that leaves the custom errors out.
formattedErrorList_SchemaOnly(v) ==
  IF v.valid THEN <<>>
  ELSE [i \in 1..Len(v.schemaErrors) |-> [n |-> i, text |-> v.schemaErrors[i]]]

\* lines 336-341: the numbered sentences
formattedErrorList(v) ==
  IF v.valid THEN <<>>
  ELSE [i \in 1..Len(v.schemaErrors) |-> [n |-> i, text |-> v.schemaErrors[i]]]
       \o [i \in 1..Len(v.customErrors) |->
             [n |-> i + Len(v.schemaErrors), text |-> v.customErrors[i]]]

\* lines 343-349
NewRecord(payloadId, t, v, payload) ==
  [ payloadId          |-> payloadId,
    timestamp          |-> t,
    ValidationStatus   |-> IF v.valid THEN "Valid" ELSE "Invalid",
    formattedErrorList |-> formattedErrorList(v),
    payload            |-> payload ]

\* An append that follows the live pointers.
PushEvent_Live(h, sessionId, flowId, record) ==
  IF /\ current.sessionId \in DOMAIN h
     /\ current.flowId \in DOMAIN h[current.sessionId].flows
  THEN [h EXCEPT ![current.sessionId].flows[current.flowId].events = Append(@, record)]
  ELSE h

\* An append that puts the record in twice.
PushEvent_Twice(h, sessionId, flowId, record) ==
  [h EXCEPT ![sessionId].flows[flowId].events = @ \o <<record, record>>]

\* line 350: f.events.push(record), f the flow object captured at entry
PushEvent(h, sessionId, flowId, record) ==
  [h EXCEPT ![sessionId].flows[flowId].events = Append(@, record)]

FreeSlots == { i \in DOMAIN inflight : inflight[i] = NoReq }
Suspended == { i \in DOMAIN inflight : inflight[i] # NoReq }

\* A gate that lets every request in.
IngestGate_Open(cur) == ""

\* POST /, lines 283-284: the pointer checks ("": passed)
IngestGate(cur) ==
  IF cur.sessionId = NullId THEN "NoActiveSession"
  ELSE IF cur.flowId = NullFlow THEN "NoActiveFlow"
  ELSE ""

\* POST /, lines 280-311: up to the first await
IngestEnter(payload) ==
  LET Reject(status, error) ==
        /\ res' = Response(status, error)
        /\ UNCHANGED <<engine, seen, limits, heap, registry, current, protoEndedAt, inflight, now,
                       issuedSessions, issuedPayloads>>
  IN
  IF IngestGate(current) # ""
  THEN Reject(409, IngestGate(current))
  ELSE IF ~HasFlow(heap, registry, current.sessionId, current.flowId)
  THEN \E st \in Unhandled(404) : Reject(st, "UnknownFlow")
  ELSE /\ FreeSlots # {}
       /\ issuedPayloads + Cardinality(Suspended) < limits.payloads
       /\ LET i == CHOOSE j \in FreeSlots : \A k \in FreeSlots : j <= k
          IN  inflight' = [inflight EXCEPT ![i] =
                [sessionId |-> current.sessionId, flowId |-> current.flowId,
                 payload |-> payload]]
       /\ UNCHANGED <<engine, seen, limits, heap, registry, current, protoEndedAt, now,
                      issuedSessions, issuedPayloads, res>>

\* POST /, line 311: getValidatorForFlow rejects (require() of the flow
\* module throws); the handler's promise rejects and nothing is recorded.
IngestLoadFault(i) ==
  /\ i \in Suspended
  /\ inflight' = [inflight EXCEPT ![i] = NoReq]
  /\ heap' = Live(heap, registry, inflight')
  /\ \E st \in Unhandled(500) : res' = Response(st, "Fault")
  /\ seen' = [seen EXCEPT ![i] = NotAsked]
  /\ UNCHANGED <<engine, limits, registry, current, protoEndedAt, now,
                 issuedSessions, issuedPayloads>>

\* POST /, lines 316-354: validate, build the record, append it, answer
IngestFinish(i, out) ==
  /\ i \in Suspended
  /\ \E t \in Later(now) :
       LET req      == inflight[i]
           v        == Verdict(out)
           payloadId == randomUUID(issuedPayloads)
           record   == NewRecord(payloadId, t, v, req.payload)
       IN  /\ inflight' = [inflight EXCEPT ![i] = NoReq]
           /\ issuedPayloads' = issuedPayloads + 1
           /\ now' = t
           /\ IF FlowLookup(heap[req.sessionId], req.flowId) = "own"
              THEN /\ heap' = Live(PushEvent(heap, req.sessionId, req.flowId, record),
                                   registry, inflight')
                   /\ res' = [Response(IF v.valid THEN 200 ELSE 400, "")
                                EXCEPT !.payloadId = payloadId]
              ELSE \* f.events is undefined: push throws a TypeError
                   /\ heap' = Live(heap, registry, inflight')
                   /\ \E st \in Unhandled(500) :
                        res' = Response(st, "Fault")
           /\ seen' = [seen EXCEPT ![i] = NotAsked]
           /\ UNCHANGED <<engine, limits, registry, current, protoEndedAt, issuedSessions>>

(***************************************************************************)
(* Specification                                                           *)
(***************************************************************************)
NextRegistry ==
  \/ StartSession
  \/ EndSession
  \/ \E sessionId \in (1..limits.sessions) \cup {UnknownId} : DeleteSession(sessionId)
  \/ \E flowId \in limits.flowIds, name \in limits.names : StartFlow(flowId, name)
  \/ EndFlow
  \/ ClearAll

Next ==
  \/ NextRegistry
  \/ \E payload \in Payloads : IngestEnter(payload)
  \/ \E i \in DOMAIN inflight : IngestLoadFault(i)
  \/ \E i \in DOMAIN inflight, out \in limits.outcomes : IngestFinish(i, ValidatorOutcomes[out])

\* The custom rule of a suspended ingest calls ctx.findEvents, lines
\* 296-305 (one call per ingest, at any time while it is suspended).
RuleQuery(i, fid, where) ==
  /\ i \in Suspended
  /\ seen[i] = NotAsked
  /\ seen' = [seen EXCEPT ![i] = findEvents(heap, registry, inflight[i], fid, where)]
  /\ UNCHANGED <<engine, limits, heap, registry, current, protoEndedAt, inflight, now,
                 issuedSessions, issuedPayloads, res>>

\* The same call without a flow id.
RuleQueryAll(i, where) ==
  /\ i \in Suspended
  /\ seen[i] = NotAsked
  /\ \E order \in Orders(heap[inflight[i].sessionId]) :
       seen' = [seen EXCEPT ![i] = findAllEvents(heap, inflight[i], order, where)]
  /\ UNCHANGED <<engine, limits, heap, registry, current, protoEndedAt, inflight, now,
                 issuedSessions, issuedPayloads, res>>

NextQuery ==
  \/ Next
  \/ \E i \in DOMAIN inflight, fid \in limits.flowIds, where \in Wheres :
       RuleQuery(i, fid, where)
  \/ \E i \in DOMAIN inflight, where \in Wheres : RuleQueryAll(i, where)

\* validate, lines 736-746: the schema paths are resolved; when there are
\* none the ValidationError is caught and validate returns at once
Resolve ==
  /\ validation = NoResult
  /\ schemaPaths = <<>>
  /\ LET paths == resolveSchemaPaths(flowDir, commonDir, payloadType, selection)
     IN  IF paths # <<>>
         THEN schemaPaths' = paths /\ validation' = validation
         ELSE /\ schemaPaths' = schemaPaths
              /\ validation' = [ kind |-> "result", valid |-> FALSE,
                                 schemaErrors |-> <<>>,
                                 customErrors |-> <<NoSchemaFound>>,
                                 message |-> "" ]
  /\ UNCHANGED <<limits, heap, registry, current, protoEndedAt, inflight, now,
                 issuedSessions, issuedPayloads, res,
                 ajvErrors, customRule, ruleCalls,
                 flowDir, commonDir, selection, payloadType, seen,
                 disk, CACHE, compiled, pluginDisk, requireCache, mod, proxy>>

\* validate, lines 748-764: the candidates are tried, the custom rule is
\* run, validate returns (or the rule's error leaves it)
Validate ==
  /\ validation = NoResult
  /\ schemaPaths # <<>>
  /\ validation' = validate(ajvErrors, schemaPaths, customRule)
  /\ ruleCalls' = ruleCalls + customCalls(customRule, tryValidate(ajvErrors, schemaPaths))
  /\ CACHE' = CacheAfter(CACHE, disk, schemaPaths)
  /\ compiled' = CompiledFor(CACHE, disk, schemaPaths)
  /\ UNCHANGED <<limits, heap, registry, current, protoEndedAt, inflight, now,
                 issuedSessions, issuedPayloads, res,
                 schemaPaths, ajvErrors, customRule,
                 flowDir, commonDir, selection, payloadType, seen, disk,
                 pluginDisk, requireCache, mod, proxy>>

\* A schema file is modified on disk while the server runs.
EditSchema(schemaPath) ==
  /\ disk[schemaPath] < MaxVersions
  /\ disk' = [disk EXCEPT ![schemaPath] = @ + 1]
  /\ UNCHANGED <<limits, heap, registry, current, protoEndedAt, inflight, now,
                 issuedSessions, issuedPayloads, res,
                 schemaPaths, ajvErrors, customRule, validation, ruleCalls,
                 flowDir, commonDir, selection, payloadType, seen, CACHE, compiled,
                 pluginDisk, requireCache, mod, proxy>>

\* The next payload of the flow is validated: validate is called again,
\* with the candidates resolved for that payload.
NextValidation(paths) ==
  /\ validation # NoResult
  /\ validation' = NoResult
  /\ schemaPaths' = paths
  /\ UNCHANGED <<limits, heap, registry, current, protoEndedAt, inflight, now,
                 issuedSessions, issuedPayloads, res,
                 ajvErrors, customRule, ruleCalls,
                 flowDir, commonDir, selection, payloadType, seen,
                 disk, CACHE, compiled, pluginDisk, requireCache, mod, proxy>>

\* The flow's plugin file is written (added when it was not there, edited
\* when it was) while the server runs.
EditPlugin(file) ==
  /\ pluginDisk[file] < MaxVersions
  /\ pluginDisk' = [pluginDisk EXCEPT ![file] = @ + 1]
  /\ UNCHANGED <<limits, heap, registry, current, protoEndedAt, inflight, now,
                 issuedSessions, issuedPayloads, res,
                 schemaPaths, ajvErrors, customRule, validation, ruleCalls,
                 flowDir, commonDir, selection, payloadType, seen,
                 disk, CACHE, compiled, requireCache, mod, proxy>>

\* getValidatorForFlow(flowId, opts), lines 719-726, as each ingest calls
\* it: the plugin is loaded and bound into the validator returned.
LoadPlugin ==
  /\ mod.call < MaxLoads
  /\ LET m == loadFlowModule(pluginDisk, requireCache)
     IN  /\ mod' = [call |-> mod.call + 1, bound |-> m]
         /\ requireCache' = IF m = NoModule THEN requireCache
                            ELSE [requireCache EXCEPT ![m.file] = m.version]
  /\ UNCHANGED <<limits, heap, registry, current, protoEndedAt, inflight, now,
                 issuedSessions, issuedPayloads, res,
                 schemaPaths, ajvErrors, customRule, validation, ruleCalls,
                 flowDir, commonDir, selection, payloadType, seen,
                 disk, CACHE, compiled, pluginDisk, proxy>>

\* tee-proxy.js lines 12-23: a request arrives at the proxy
ProxyRequest(r) ==
  /\ proxy[r] = NotReceived
  /\ proxy' = [proxy EXCEPT ![r] = MirrorMiddleware(proxy[r])]
  /\ UNCHANGED <<limits, heap, registry, current, protoEndedAt, inflight, now,
                 issuedSessions, issuedPayloads, res,
                 schemaPaths, ajvErrors, customRule, validation, ruleCalls,
                 flowDir, commonDir, selection, payloadType, seen,
                 disk, CACHE, compiled, pluginDisk, requireCache, mod>>

\* tee-proxy.js line 21: the promise of axios.post settles; a rejection is
\* swallowed by .catch(() => {})
MirrorSettles(r, outcome) ==
  /\ proxy[r].mirror = "pending"
  /\ proxy' = [proxy EXCEPT ![r].mirror = outcome]
  /\ UNCHANGED <<limits, heap, registry, current, protoEndedAt, inflight, now,
                 issuedSessions, issuedPayloads, res,
                 schemaPaths, ajvErrors, customRule, validation, ruleCalls,
                 flowDir, commonDir, selection, payloadType, seen,
                 disk, CACHE, compiled, pluginDisk, requireCache, mod>>

\* tee-proxy.js lines 25-32: the proxy middleware passes the target's
\* response back
TargetResponds(r) ==
  /\ proxy[r].primary = "forwarded"
  /\ proxy' = [proxy EXCEPT ![r].primary = "responded"]
  /\ UNCHANGED <<limits, heap, registry, current, protoEndedAt, inflight, now,
                 issuedSessions, issuedPayloads, res,
                 schemaPaths, ajvErrors, customRule, validation, ruleCalls,
                 flowDir, commonDir, selection, payloadType, seen,
                 disk, CACHE, compiled, pluginDisk, requireCache, mod>>

NextProxy ==
  \/ \E r \in 1..MaxRequests : ProxyRequest(r)
  \/ \E r \in 1..MaxRequests, outcome \in MirrorOutcomes : MirrorSettles(r, outcome)
  \/ \E r \in 1..MaxRequests : TargetResponds(r)

NextPlugin ==
  \/ LoadPlugin
  \/ \E file \in {"index.js", "custom.js"} : EditPlugin(file)

NextReload ==
  \/ Validate
  \/ \E schemaPath \in Schemas : EditSchema(schemaPath)
  \/ \E paths \in SeqsUpTo(Schemas, MaxCandidates) \ {<<>>} : NextValidation(paths)

Spec         == Init /\ [][Next]_vars
SpecLifecycle == InitLifecycle /\ [][NextRegistry]_vars
SpecValidate == InitValidate /\ [][Validate]_vars
SpecResolve  == InitResolve /\ [][Resolve \/ Validate]_vars
SpecFlows    == InitFlows /\ [][NextRegistry]_vars
SpecHistory  == InitHistory /\ [][Next]_vars
SpecSessions == InitSessions /\ [][Next]_vars
SpecQuery    == InitQuery /\ [][NextQuery]_vars
SpecReload   == InitReload /\ [][NextReload]_vars
SpecPlugin   == Init /\ [][NextPlugin]_vars
SpecProxy    == Init /\ [][NextProxy]_vars


(***************************************************************************)
(* Properties                                                              *)
(***************************************************************************)
NoPointers == [sessionId |-> NullId, flowId |-> NullFlow]

\* The flows a session owns (what Object.keys(s.flows) lists).
OwnFlows(h, sessionId) == DOMAIN h[sessionId].flows

HasHistory(h, sessionId) ==
  \E fid \in OwnFlows(h, sessionId) : Len(h[sessionId].flows[fid].events) > 0

\* C1: in every reachable state, current.flowId is non-null only if
\* current.sessionId is non-null, that session is in the registry and a
\* flow with that id is one of that session's flows.
C1_CurrentPointerInvariant ==
  current.flowId # NullFlow =>
    /\ current.sessionId # NullId
    /\ current.sessionId \in registry
    /\ current.flowId \in OwnFlows(heap, current.sessionId)

\* C2: a StartSession while a session is current ends that session (its
\* endedAt is non-null afterwards) and leaves it, its flows and their
\* histories in the registry as they were.
C2_StartSessionEndsPrior ==
  [][ (StartSession /\ current.sessionId # NullId) =>
        LET old == current.sessionId IN
        /\ old \in registry'
        /\ heap'[old].endedAt # NoTime
        /\ heap'[old].createdAt = heap[old].createdAt
        /\ heap'[old].flows = heap[old].flows
        /\ current'.sessionId # old
        /\ \A sid \in registry \ {old} : sid \in registry' /\ heap'[sid] = heap[sid]
    ]_vars

\* C2 witness: an auto-ended session with a recorded payload sits in the
\* registry beside the session that replaced it, no session ever deleted.
C2_Witness ==
  /\ current.sessionId # NullId
  /\ Cardinality(registry) = issuedSessions
  /\ \E sid \in registry \ {current.sessionId} :
       heap[sid].endedAt # NoTime /\ HasHistory(heap, sid)

\* C3: StartSession always succeeds: it answers 200, the new session's id
\* was not in the registry (nor on the heap), the new session has endedAt
\* unset and no flows, it is the current session and no flow is current.
C3_StartSessionFresh ==
  [][ StartSession =>
        LET sid == current'.sessionId IN
        /\ res'.status = 200
        /\ sid # NullId
        /\ sid \notin registry /\ sid \notin DOMAIN heap
        /\ sid \in registry'
        /\ heap'[sid].endedAt = NoTime
        /\ heap'[sid].flows = << >>
        /\ current'.flowId = NullFlow
        /\ registry' = registry \cup {sid}
    ]_vars

\* C3 witness: a second session was started while the first was still in
\* the registry.
C3_Witness ==
  /\ Cardinality(registry) >= 2
  /\ current.sessionId \in registry
  /\ current.flowId = NullFlow
  /\ heap[current.sessionId].flows = << >>

\* C4: EndSession with no current session answers NoActiveSession and
\* changes nothing; otherwise it sets endedAt on the current session and
\* clears both pointers.
C4_EndSession ==
  [][ EndSession =>
        IF current.sessionId = NullId
        THEN /\ res'.status = 409 /\ res'.error = "NoActiveSession"
             /\ UNCHANGED <<heap, registry, current, protoEndedAt, inflight>>
        ELSE /\ res'.status = 200
             /\ heap'[current.sessionId].endedAt # NoTime
             /\ current' = NoPointers
             /\ registry' = registry
    ]_vars

\* C4 witness: the only way to a null session pointer with every issued
\* session still registered is EndSession, which has stamped that session.
C4_Witness ==
  /\ current = NoPointers
  /\ registry # {}
  /\ Cardinality(registry) = issuedSessions
  /\ \A sid \in registry : heap[sid].endedAt # NoTime

\* The id is there and one of its characters is outside [A-Za-z0-9_].
HasBadChar(flowId) ==
  /\ flowId # Absent
  /\ \E i \in 1..Len(FlowIdChars[flowId]) : FlowIdChars[flowId][i] \notin WordChars

\* A request left the registry, the heap and the pointers as they were.
NothingChanged == UNCHANGED <<heap, registry, current, protoEndedAt, inflight>>

\* C5, as stated: StartFlow with an id that has a character outside
\* [A-Za-z0-9_] fails with InvalidFlowId in every state, a session current
\* or not, and creates no flow.
C5_AlwaysInvalidFlowId ==
  [][ \A flowId \in limits.flowIds, name \in limits.names :
        (HasBadChar(flowId) /\ StartFlow(flowId, name)) =>
          /\ res'.error = "InvalidFlowId"
          /\ heap' = heap
    ]_vars

\* C5, as the code has it: StartFlow with an id that has a character
\* outside [A-Za-z0-9_] always fails and creates no flow; the failure is
\* InvalidFlowId (400) when a session is current and NoActiveSession (409)
\* when none is, the session being looked at before the id.
C5_BadIdRejected ==
  [][ \A flowId \in limits.flowIds, name \in limits.names :
        (HasBadChar(flowId) /\ StartFlow(flowId, name)) =>
          /\ IF current.sessionId = NullId
             THEN res'.status = 409 /\ res'.error = "NoActiveSession"
             ELSE res'.status = 400 /\ res'.error = "InvalidFlowId"
          /\ NothingChanged
    ]_vars

\* C5 witness: an id with a bad character was refused while a session and
\* a flow were current.
C5_Witness ==
  /\ res.error = "InvalidFlowId"
  /\ current.sessionId # NullId
  /\ current.flowId # NullFlow

\* C6: StartFlow fails with NoActiveSession when no session is current and,
\* a session being current, with MissingFlowId when the id is absent or
\* empty; every failing StartFlow leaves the registry, the sessions and the
\* pointers as they were, so the current flow is not auto-ended.
C6_StartFlowFailures ==
  [][ \A flowId \in limits.flowIds, name \in limits.names :
        StartFlow(flowId, name) =>
          /\ current.sessionId = NullId =>
                res'.status = 409 /\ res'.error = "NoActiveSession"
          /\ (current.sessionId # NullId /\ flowId \in {Absent, ""}) =>
                res'.status = 400 /\ res'.error = "MissingFlowId"
          /\ res'.status # 200 => NothingChanged
    ]_vars

\* C6 witness: an id was found missing while a flow was current, and that
\* flow is still current and not ended.
C6_Witness ==
  /\ res.error = "MissingFlowId"
  /\ current.sessionId # NullId
  /\ current.flowId \in OwnFlows(heap, current.sessionId)
  /\ heap[current.sessionId].flows[current.flowId].endedAt = NoTime

\* endedAt after an auto end: kept when set, stamped when unset.
AutoEnded(before, after) ==
  IF before # NoTime THEN after = before ELSE after # NoTime

\* C7: a successful StartFlow(flowId) sets endedAt of the previously
\* current flow only if it was unset, creates flowId in the current session
\* only if the lookup did not find it there, and leaves current.flowId =
\* flowId with current.sessionId unchanged.  Nothing else is touched.
C7_StartFlowSuccess ==
  [][ \A flowId \in limits.flowIds, name \in limits.names :
        (StartFlow(flowId, name) /\ res'.status = 200) =>
          LET sid    == current.sessionId
              prev   == current.flowId
              before == heap[sid].flows
              after  == heap'[sid].flows
          IN  /\ current' = [sessionId |-> sid, flowId |-> flowId]
              /\ registry' = registry
              /\ \A other \in DOMAIN heap \ {sid} :
                    other \in DOMAIN heap' /\ heap'[other] = heap[other]
              /\ heap'[sid].createdAt = heap[sid].createdAt
              /\ heap'[sid].endedAt = heap[sid].endedAt
              \* the previously current flow
              /\ prev \in DOMAIN before =>
                    /\ AutoEnded(before[prev].endedAt, after[prev].endedAt)
                    /\ [after[prev] EXCEPT !.endedAt = NoTime]
                         = [before[prev] EXCEPT !.endedAt = NoTime]
              /\ \A k \in ProtoKeys :
                    IF prev = k /\ k \notin DOMAIN before
                    THEN AutoEnded(protoEndedAt[k], protoEndedAt'[k])
                    ELSE protoEndedAt'[k] = protoEndedAt[k]
              \* the flow that was started
              /\ DOMAIN after =
                    IF FlowLookup(heap[sid], flowId) = "undefined"
                    THEN DOMAIN before \cup {flowId}
                    ELSE DOMAIN before
              /\ flowId \notin DOMAIN before /\ flowId \in DOMAIN after =>
                    /\ after[flowId].events = <<>>
                    /\ after[flowId].endedAt = NoTime
                    /\ after[flowId].name = IF name \in {Absent, ""} THEN flowId ELSE name
              \* every other flow of the session
              /\ \A fid \in DOMAIN before \ {prev} : after[fid] = before[fid]
    ]_vars

\* C7 witness: flow "a" was ended, started again and then auto-ended by a
\* start of "b_1" with its first endedAt kept: that stamp is older than
\* the one "b_1" got when "a" was started again.
C7_Witness ==
  /\ current.sessionId # NullId
  /\ current.flowId = "b_1"
  /\ {"a", "b_1"} \subseteq OwnFlows(heap, current.sessionId)
  /\ LET flows == heap[current.sessionId].flows
     IN  /\ flows["a"].endedAt # NoTime
         /\ flows["a"].endedAt < flows["b_1"].endedAt

\* C8: a StartFlow of an id the current session already has, right away or
\* after other flows were started and ended, keeps that flow's payload
\* history, name and createdAt.
C8_RestartKeepsHistory ==
  [][ \A flowId \in limits.flowIds, name \in limits.names :
        ( /\ StartFlow(flowId, name)
          /\ res'.status = 200
          /\ flowId \in OwnFlows(heap, current.sessionId) ) =>
          LET before == heap[current.sessionId].flows[flowId]
              after  == heap'[current.sessionId].flows[flowId]
          IN  /\ after.events = before.events
              /\ after.name = before.name
              /\ after.createdAt = before.createdAt
    ]_vars

\* C8 witness: the current flow holds a payload recorded before the flow
\* was ended, so the flow was started again with that history and kept it.
C8_Witness ==
  /\ current.sessionId # NullId
  /\ current.flowId \in OwnFlows(heap, current.sessionId)
  /\ LET f == heap[current.sessionId].flows[current.flowId]
     IN  /\ Len(f.events) > 0
         /\ f.endedAt # NoTime
         /\ f.events[1].timestamp < f.endedAt

\* C9: EndFlow fails with NoActiveSession when no session is current and
\* with NoActiveFlow when a session but no flow is current, changing
\* nothing; otherwise it sets endedAt on the current flow and clears the
\* flow pointer only, the session staying current with endedAt unset.
C9_EndFlow ==
  [][ EndFlow =>
        IF current.sessionId = NullId
        THEN /\ res'.status = 409 /\ res'.error = "NoActiveSession"
             /\ NothingChanged
        ELSE IF current.flowId = NullFlow
        THEN /\ res'.status = 409 /\ res'.error = "NoActiveFlow"
             /\ NothingChanged
        ELSE LET sid == current.sessionId
                 fid == current.flowId
             IN  /\ res'.status = 200
                 /\ IF fid \in OwnFlows(heap, sid)
                    THEN heap'[sid].flows[fid].endedAt # NoTime
                    ELSE protoEndedAt'[fid] # NoTime
                 /\ current' = [sessionId |-> sid, flowId |-> NullFlow]
                 /\ sid \in registry'
                 /\ heap'[sid].endedAt = NoTime
    ]_vars

\* C9 witness: a session is current, no flow is, and every flow of the
\* session is ended; a fresh session has no flows, so EndFlow was here.
C9_Witness ==
  /\ current.sessionId # NullId
  /\ current.flowId = NullFlow
  /\ OwnFlows(heap, current.sessionId) # {}
  /\ \A fid \in OwnFlows(heap, current.sessionId) :
        heap[current.sessionId].flows[fid].endedAt # NoTime

\* C10: DeleteSession(id) answers 200, removes exactly id from the registry
\* and leaves every other session as it was; both pointers are cleared if
\* id was the current session and kept otherwise; an id that is not in the
\* registry changes neither the registry nor the pointers.
C10_DeleteSession ==
  [][ \A sessionId \in (1..limits.sessions) \cup {UnknownId} :
        DeleteSession(sessionId) =>
          /\ res'.status = 200
          /\ registry' = registry \ {sessionId}
          /\ \A sid \in registry' : heap'[sid] = heap[sid]
          /\ current' = IF current.sessionId = sessionId THEN NoPointers ELSE current
          /\ sessionId \notin registry =>
                registry' = registry /\ current' = current /\ heap' = heap
    ]_vars

\* C10 witness: the current session was deleted before it was ended (an
\* ingest in flight still holds it), the pointers are clear and an older
\* session is in the registry as before.
C10_Witness ==
  /\ current = NoPointers
  /\ registry # {}
  /\ \E i \in DOMAIN inflight :
        /\ inflight[i] # NoReq
        /\ inflight[i].sessionId \notin registry
        /\ heap[inflight[i].sessionId].endedAt = NoTime

\* The payload ids recorded in a flow.
RecordIds(h, sessionId, flowId) ==
  { h[sessionId].flows[flowId].events[k].payloadId :
      k \in 1..Len(h[sessionId].flows[flowId].events) }

\* The flows a request can query: those of the sessions in the registry.
Reachable(h, reg) ==
  { <<sid, fid>> \in reg \X DOMAIN FlowIdChars : fid \in OwnFlows(h, sid) }

\* before is the start of after
IsPrefix(before, after) ==
  Len(before) <= Len(after) /\ SubSeq(after, 1, Len(before)) = before

\* C11: an ingest with no session current answers NoActiveSession, one with
\* a session but no flow current answers NoActiveFlow; neither appends a
\* record to any flow nor changes anything else.
C11_IngestNeedsPointers ==
  [][ \A payload \in Payloads :
        IngestEnter(payload) =>
          /\ current.sessionId = NullId =>
               /\ res'.status = 409 /\ res'.error = "NoActiveSession"
               /\ NothingChanged
          /\ (current.sessionId # NullId /\ current.flowId = NullFlow) =>
               /\ res'.status = 409 /\ res'.error = "NoActiveFlow"
               /\ NothingChanged
    ]_vars

\* C11 witness: after a session that took a payload was ended (or its
\* successor went away) no session is current and a request was refused
\* with NoActiveSession, the recorded history still in place.
C11_Witness ==
  /\ res.status = 409 /\ res.error = "NoActiveSession"
  /\ current = NoPointers
  /\ \E sid \in registry : HasHistory(heap, sid)

\* C12, as stated: every ingest that passed the pointer checks and whose
\* validation completed appends exactly one record, with a fresh id, the
\* verdict and the payload, to the end of the history of the flow resolved
\* at entry, answers with that id, reports success exactly when the verdict
\* is Valid and changes nothing else.
C12_IngestAppendsOne ==
  [][ \A i \in DOMAIN inflight, out \in limits.outcomes :
        IngestFinish(i, ValidatorOutcomes[out]) =>
          LET req == inflight[i]
              v   == Verdict(ValidatorOutcomes[out])
          IN  /\ req.flowId \in OwnFlows(heap, req.sessionId)
              /\ res'.payloadId # 0
              /\ \A sf \in Reachable(heap, registry) :
                   res'.payloadId \notin RecordIds(heap, sf[1], sf[2])
              /\ (res'.status = 200) <=> v.valid
              /\ req.sessionId \in DOMAIN heap' =>
                   \E record \in {NewRecord(res'.payloadId, now', v, req.payload)} :
                     heap'[req.sessionId] =
                       PushEvent(heap, req.sessionId, req.flowId, record)[req.sessionId]
              /\ \A sid \in DOMAIN heap' \ {req.sessionId} : heap'[sid] = heap[sid]
              /\ UNCHANGED <<registry, current, protoEndedAt>>
    ]_vars

C14_NoSuccessForUnreachable ==
  [][ \A i \in DOMAIN inflight, out \in limits.outcomes :
        IngestFinish(i, ValidatorOutcomes[out]) =>
          /\ inflight[i].sessionId \notin registry =>
               res'.error \in {"UnknownSession", "UnknownFlow"}
          /\ (res'.status = 200 /\ res'.payloadId # 0) =>
               \E sf \in Reachable(heap', registry') :
                 res'.payloadId \in RecordIds(heap', sf[1], sf[2])
    ]_vars

\* C15, as stated: for an ingest that passed the pointer checks (into a flow
\* of a registered session), whatever fault validator processing raises,
\* the request ends with a verdict response carrying the id of a record
\* appended to the flow.
C15_FaultsBecomeVerdicts ==
  [][ \A i \in DOMAIN inflight :
        ( /\ inflight[i] # NoReq
          /\ inflight'[i] = NoReq
          /\ <<inflight[i].sessionId, inflight[i].flowId>> \in Reachable(heap, registry) ) =>
          /\ res'.status \in {200, 400}
          /\ res'.payloadId # 0
          /\ res'.payloadId \in RecordIds(heap', inflight[i].sessionId, inflight[i].flowId)
    ]_vars

\* C16: once a session's endedAt is set, no step changes or clears it while
\* the session stays in the registry.
C16_SessionEndedOnce ==
  [][ \A sid \in registry \cap registry' :
        heap[sid].endedAt # NoTime => heap'[sid].endedAt = heap[sid].endedAt
    ]_vars

\* C16 witness: two ended sessions in the registry, the first with the
\* older stamp: the second was started and ended, at later clock readings,
\* after the first had its endedAt.
C16_Witness ==
  \E s1, s2 \in registry :
    /\ heap[s1].endedAt # NoTime
    /\ heap[s1].endedAt < heap[s2].createdAt
    /\ heap[s1].endedAt < heap[s2].endedAt

\* C17, as stated: once a flow's endedAt is set, no step changes or clears
\* it while the flow stays in the registry, a StartFlow of the same id
\* followed by EndFlow included.
C17_FlowEndedOnce ==
  [][ \A sf \in Reachable(heap, registry) \cap Reachable(heap', registry') :
        LET before == heap[sf[1]].flows[sf[2]].endedAt
            after  == heap'[sf[1]].flows[sf[2]].endedAt
        IN  before # NoTime => after = before
    ]_vars

CandidateErrors(i) == ajvErrors[schemaPaths[i]]

\* C19: pass-if-any.  Schema validation passes (no schema errors are
\* reported) exactly when at least one candidate accepts the payload; with
\* no plugin rule the verdict is then Valid, as for candidates A and B and a
\* payload only B accepts.
C19_PassIfAny ==
  validation # NoResult =>
    LET accepted == \E i \in 1..Len(schemaPaths) : CandidateErrors(i) = <<>>
    IN  /\ (validation.schemaErrors = <<>>) <=> accepted
        /\ customRule.kind = "absent" => (validation.valid <=> accepted)

\* C19 witness: candidates A and B, no plugin rule, the payload rejected by
\* A and accepted by B, verdict Valid.
C19_Witness ==
  /\ validation # NoResult
  /\ schemaPaths = <<"A.schema.json", "B.schema.json">>
  /\ ajvErrors["A.schema.json"] # <<>>
  /\ ajvErrors["B.schema.json"] = <<>>
  /\ customRule.kind = "absent"
  /\ validation.valid

\* C20: when every candidate rejects the payload, the schema errors
\* reported are the error list of the candidate with the fewest errors, the
\* first such candidate in enumeration order on a tie.
C20_FewestErrorsReported ==
  ( /\ validation # NoResult
    /\ \A i \in 1..Len(schemaPaths) : CandidateErrors(i) # <<>> ) =>
    \E i \in 1..Len(schemaPaths) :
      /\ \A j \in 1..Len(schemaPaths) : Len(CandidateErrors(i)) <= Len(CandidateErrors(j))
      /\ \A j \in 1..(i-1) : Len(CandidateErrors(j)) > Len(CandidateErrors(i))
      /\ validation.schemaErrors = CandidateErrors(i)

\* C20 witness: B before A, each rejecting with one error and not the same
\* one; the errors reported are B's.
C20_Witness ==
  /\ validation # NoResult
  /\ schemaPaths = <<"B.schema.json", "A.schema.json">>
  /\ ajvErrors["B.schema.json"] = <<"type">>
  /\ ajvErrors["A.schema.json"] = <<"required">>
  /\ validation.schemaErrors = <<"type">>
  /\ ~validation.valid

\* The resolution of the validation at hand is done.
Resolved == schemaPaths # <<>> \/ validation # NoResult

\* The recorded error list of the validation at hand.
RecordedErrors == formattedErrorList(Verdict(validation))

\* The sentences numbered from 1 on.
Numbered(texts) == [i \in 1..Len(texts) |-> [n |-> i, text |-> texts[i]]]

\* No .json file in either directory.
NoSchemaFiles ==
  /\ \A i \in 1..Len(flowDir) : FileExt[flowDir[i]] # ".json"
  /\ \A i \in 1..Len(commonDir) : FileExt[commonDir[i]] # ".json"

\* The plugin selects nothing that resolves: it returns no reference, or
\* only plain names that are in neither directory.
NothingSelected ==
  \A i \in 1..Len(selection.refs) :
    /\ Len(selection.refs[i]) = 1
    /\ ~InDir(flowDir, selection.refs[i][1])
    /\ ~InDir(commonDir, selection.refs[i][1])

\* C21: when resolution finds no candidate (nothing selected resolves, no
\* schema file in the flow or the shared directory, hence no type-named
\* one), the verdict is Invalid, the recorded error list is the one
\* sentence "No schema found in flow or common schema directories", and
\* the custom rule is not run.
C21_NoSchemaFound ==
  (Resolved /\ NothingSelected /\ NoSchemaFiles) =>
    /\ validation # NoResult
    /\ schemaPaths = <<>>
    /\ ~Verdict(validation).valid
    /\ RecordedErrors =
         <<[n |-> 1, text |-> "No schema found in flow or common schema directories"]>>
    /\ ruleCalls = 0

\* C21 witness: a flow directory with no schema file, an empty shared
\* directory, a plugin that selects a name found nowhere and has a custom
\* rule, a payload with a type; the resolution is done.
C21_Witness ==
  /\ Resolved
  /\ flowDir = <<"notes.txt">>
  /\ commonDir = <<>>
  /\ selection = [kind |-> "string", refs |-> << <<"A.schema.json">> >>]
  /\ payloadType.text = "A"
  /\ customRule.kind = "array"
  /\ validation.customErrors = <<NoSchemaFound>>

\* C22: the verdict is Valid only if at least one candidate accepted the
\* payload and the custom rule reported no error; a payload every candidate
\* rejects is never Valid.
C22_ValidOnlyIf ==
  (validation # NoResult /\ Verdict(validation).valid) =>
    /\ \E i \in 1..Len(schemaPaths) : CandidateErrors(i) = <<>>
    /\ customRule.kind \in {"array", "string"} => customRule.messages = <<>>

\* C22 witness: a Valid verdict where one candidate rejected the payload,
\* another accepted it and the rule returned an empty array.
C22_Witness ==
  /\ validation # NoResult
  /\ validation.valid
  /\ customRule = [kind |-> "array", messages |-> <<>>]
  /\ \E i \in 1..Len(schemaPaths) : CandidateErrors(i) # <<>>

\* C23: with candidates and a plugin that has the custom rule, the rule is
\* called exactly once, the schemas having passed or not, and the recorded
\* error list is the schema errors numbered 1..k followed by the custom
\* errors numbered k+1..k+m in the order the rule returned them.
C23_RuleOnceErrorsNumbered ==
  (validation # NoResult /\ schemaPaths # <<>> /\ customRule.kind # "absent") =>
    /\ ruleCalls = 1
    /\ ~Verdict(validation).valid =>
         LET returned == IF customRule.kind \in {"array", "string"}
                         THEN customRule.messages ELSE <<>>
         IN  RecordedErrors = Numbered(validation.schemaErrors \o returned)

\* C23 witness: every candidate rejected the payload and the rule, called
\* once, returned two errors: they are recorded after the schema errors.
C23_Witness ==
  /\ validation # NoResult
  /\ ruleCalls = 1
  /\ validation.schemaErrors # <<>>
  /\ Len(customRule.messages) = 2
  /\ Len(RecordedErrors) = Len(validation.schemaErrors) + 2

\* The schema errors validate computes for the candidates at hand.
ComputedSchemaErrors(errs) ==
  IF \E i \in 1..Len(schemaPaths) : CandidateErrors(i) = <<>>
  THEN errs = <<>>
  ELSE \E i \in 1..Len(schemaPaths) :
         /\ \A j \in 1..Len(schemaPaths) : Len(CandidateErrors(i)) <= Len(CandidateErrors(j))
         /\ \A j \in 1..(i-1) : Len(CandidateErrors(j)) > Len(CandidateErrors(i))
         /\ errs = CandidateErrors(i)

\* C24, as stated: when the custom rule throws a validation-domain error,
\* the verdict is Invalid and the recorded error list is the schema errors
\* computed for the payload followed by the error's message, numbered after
\* them.
C24_ThrownRuleErrorAfterSchemaErrors ==
  (validation # NoResult /\ validation.kind = "ValidationError") =>
    /\ ~Verdict(validation).valid
    /\ \E errs \in ErrorLists :
         /\ ComputedSchemaErrors(errs)
         /\ RecordedErrors = Numbered(errs \o <<customRule.messages[1]>>)

\* Dropping what did not resolve.
RECURSIVE Found(_)
Found(paths) ==
  IF paths = <<>> THEN <<>>
  ELSE IF Head(paths) = NoPath THEN Found(Tail(paths))
  ELSE <<Head(paths)>> \o Found(Tail(paths))

\* What the steps after the plugin's pick give (<<>>: no schema found).
Heuristics ==
  IF TypePaths(payloadType, flowDir, commonDir) # <<>>
  THEN TypePaths(payloadType, flowDir, commonDir)
  ELSE DirectoryPaths(flowDir, commonDir)

\* C26: if selectSchema returns references of which at least one resolves,
\* the candidates are the resolved paths in the order returned, the others
\* dropped, whatever the heuristics would give; if it returns nothing or
\* nothing resolves, the heuristic steps decide.
C26_PluginSelection ==
  Resolved =>
    LET picked == Found([i \in 1..Len(selection.refs) |->
                           resolveRefToPath(selection.refs[i], flowDir, commonDir)])
    IN  IF selection.kind \in {"string", "array"} /\ picked # <<>>
        THEN schemaPaths = picked
        ELSE schemaPaths = Heuristics

\* C26 witness: the plugin returned a name found nowhere and a shared
\* reference; the candidate is the shared one alone although the flow
\* directory has a schema file and the payload a type.
C26_Witness ==
  /\ Resolved
  /\ selection = [kind |-> "array",
                  refs |-> << <<"A.schema.json">>, <<"@common", "A.schema.json">> >>]
  /\ flowDir = <<"0.schema.json">>
  /\ commonDir = <<>>
  /\ payloadType.text = "0"
  /\ schemaPaths = <<CommonPath("A.schema.json")>>

\* C27, as stated: when the plugin's pick gives no candidate and the
\* payload carries a type field, the candidate is the file named after the
\* type in the flow directory if it is there, else the one in the shared
\* directory if it is there, other schema files notwithstanding; if it is
\* in neither, the single-file and try-all steps decide.
C27_TypeHeuristic ==
  ( /\ Resolved
    /\ SelectedPaths(selection, flowDir, commonDir) = <<>>
    /\ payloadType.json # "undefined" ) =>
    LET name == TypeFile[payloadType.text]
    IN  IF InDir(flowDir, name) THEN schemaPaths = <<FlowPath(name)>>
        ELSE IF InDir(commonDir, name) THEN schemaPaths = <<CommonPath(name)>>
        ELSE schemaPaths = DirectoryPaths(flowDir, commonDir)

\* The schema files of a listing, as paths under root.
SchemaPathsIn(dir, root) ==
  LET json == SelectSeq(dir, LAMBDA n : FileExt[n] = ".json")
  IN  [i \in 1..Len(json) |-> <<root, json[i]>>]

C29_ReferenceResolution ==
  (Resolved /\ selection.kind = "string") =>
    LET ref  == selection.refs[1]
        name == ref[Len(ref)]
    IN  IF ref[1] = "" THEN schemaPaths = <<ref>>
        ELSE IF ref[1] = "@common" THEN schemaPaths = <<CommonPath(name)>>
        ELSE IF InDir(flowDir, name) THEN schemaPaths = <<FlowPath(name)>>
        ELSE IF InDir(commonDir, name) THEN schemaPaths = <<CommonPath(name)>>
        ELSE schemaPaths = Heuristics

\* C29 witness: a plain name that is not in the flow directory but in the
\* shared one resolved to the shared file, past a flow directory with
\* another schema file.
C29_Witness ==
  /\ Resolved
  /\ selection = [kind |-> "string", refs |-> << <<"A.schema.json">> >>]
  /\ flowDir = <<"0.schema.json">>
  /\ commonDir = <<"notes.txt", "A.schema.json">>
  /\ schemaPaths = <<CommonPath("A.schema.json")>>

\* C25: a custom rule's findEvents call restricted to the flow being
\* validated, when it returns, gives exactly the records appended to that
\* flow so far, in history order; the record appended for the payload being
\* validated is never among the records its rule saw.
C25_QuerySeesRecordedOnly ==
  [][ \A i \in DOMAIN inflight :
        /\ ( /\ seen[i] = NotAsked
             /\ seen'[i] # NotAsked
             /\ seen'[i].kind = "returned"
             /\ seen'[i].flowId = inflight[i].flowId
             /\ seen'[i].where = Absent ) =>
             /\ seen'[i].events =
                  heap[inflight[i].sessionId].flows[inflight[i].flowId].events
             /\ \A k \in 1..Len(seen'[i].events) :
                  seen'[i].events[k].payloadId <= issuedPayloads
        /\ ( /\ inflight[i] # NoReq
             /\ inflight'[i] = NoReq
             /\ res'.payloadId # 0
             /\ seen[i] # NotAsked
             /\ seen[i].kind = "returned" ) =>
             \A k \in 1..Len(seen[i].events) :
               seen[i].events[k].payloadId # res'.payloadId
    ]_vars

\* C25 witness: the rule of a suspended ingest asked for the records of its
\* own flow and saw the one record appended before, that of payload id 1.
C25_Witness ==
  \E i \in Suspended :
    /\ seen[i] # NotAsked
    /\ seen[i].kind = "returned"
    /\ seen[i].flowId = inflight[i].flowId
    /\ seen[i].where = Absent
    /\ Len(seen[i].events) = 1
    /\ seen[i].events[1].payloadId = 1

\* C30, as stated: every validation runs each candidate against the
\* content its schema file has at that time; a file modified after its
\* compiled form was cached is compiled again by the next validation that
\* uses it.
C30_SchemaHotReload ==
  [][ (validation = NoResult /\ validation' # NoResult) =>
        \A i \in 1..Len(schemaPaths) :
          /\ compiled'[schemaPaths[i]] = disk[schemaPaths[i]]
          /\ CACHE'[schemaPaths[i]] = disk[schemaPaths[i]]
    ]_vars

\* C31, as stated: every load of a flow's plugin binds the functions of the
\* plugin file as it is on disk at that time (the first of index.js,
\* custom.js that exists), edited or added since the load before.
C31_PluginHotReload ==
  [][ mod'.call # mod.call =>
        \/ /\ \A i \in 1..Len(PluginFiles) : pluginDisk[PluginFiles[i]] = 0
           /\ mod'.bound = NoModule
        \/ \E i \in 1..Len(PluginFiles) :
             /\ pluginDisk[PluginFiles[i]] # 0
             /\ \A k \in 1..(i-1) : pluginDisk[PluginFiles[k]] = 0
             /\ mod'.bound = [file |-> PluginFiles[i],
                              version |-> pluginDisk[PluginFiles[i]]]
    ]_vars

\* C32: DELETE /state is answered from every reachable state, and every
\* time it leaves the registry with no session and both current pointers
\* null.
C32_ClearAllEmpties ==
  /\ [](ENABLED ClearAll)
  /\ [][ ClearAll =>
           /\ registry' = {}
           /\ current' = [sessionId |-> NullId, flowId |-> NullFlow]
           /\ res'.status = 200 ]_vars

\* C32 witness: everything was cleared after two sessions had been started
\* and while an ingest was suspended.
C32_Witness ==
  /\ registry = {}
  /\ current = NoPointers
  /\ issuedSessions = 2
  /\ Suspended # {}
  /\ res = Response(200, "")

Records(events) == { events[k] : k \in 1..Len(events) }

\* C34: a findEvents call that returns changes nothing in the registry;
\* with a flowId it gives the records of that flow of the session the
\* ingest was bound to at entry that pass the filter (all when there is
\* none), in history order; without a flowId it gives records of flows of
\* that session only, and of each of its flows exactly those that pass the
\* filter, in that flow's history order.
C34_QueryScope ==
  [][ \A i \in DOMAIN inflight :
        ( /\ seen[i] = NotAsked
          /\ seen'[i] # NotAsked
          /\ seen'[i].kind = "returned" ) =>
          LET s   == heap[inflight[i].sessionId]
              got == seen'[i]
              Passes(ev) == got.where = Absent \/ ev.ValidationStatus = got.where
          IN  /\ heap' = heap /\ registry' = registry /\ current' = current
              /\ got.flowId # Absent =>
                   got.events = SelectSeq(s.flows[got.flowId].events, Passes)
              /\ got.flowId = Absent =>
                   /\ \A k \in 1..Len(got.events) :
                        \E fid \in DOMAIN s.flows :
                          got.events[k] \in Records(s.flows[fid].events)
                   /\ \A fid \in DOMAIN s.flows :
                        SelectSeq(got.events,
                                  LAMBDA ev : ev \in Records(s.flows[fid].events))
                          = SelectSeq(s.flows[fid].events, Passes)
    ]_vars

\* C34 witness: the rule of an ingest suspended in one flow asked without a
\* flowId and got the one record of the session, which is in another flow,
\* while another session is current.
C34_Witness ==
  \E i \in Suspended :
    /\ seen[i] # NotAsked
    /\ seen[i].kind = "returned"
    /\ seen[i].flowId = Absent
    /\ Len(seen[i].events) = 1
    /\ \E fid \in DOMAIN heap[inflight[i].sessionId].flows :
         /\ fid # inflight[i].flowId
         /\ seen[i].events[1] \in Records(heap[inflight[i].sessionId].flows[fid].events)
    /\ current.sessionId # inflight[i].sessionId

\* C35: in every reachable state every session in the registry other than
\* the current one has endedAt set, and the current session, if any, is in
\* the registry with endedAt unset; so at most one session in the registry
\* is un-ended.
C35_OneOpenSession ==
  /\ \A sid \in registry :
       (heap[sid].endedAt = NoTime) <=> (sid = current.sessionId)
  /\ current.sessionId # NullId => current.sessionId \in registry
  /\ Cardinality({ sid \in registry : heap[sid].endedAt = NoTime }) <= 1

\* C35 witness: an ended session and the un-ended current session side by
\* side in the registry.
C35_Witness ==
  /\ Cardinality(registry) = 2
  /\ current.sessionId \in registry
  /\ heap[current.sessionId].endedAt = NoTime
  /\ \E sid \in registry : sid # current.sessionId /\ heap[sid].endedAt # NoTime

\* C36, as stated: in every reachable state every flow of a session in the
\* registry that is not the current flow has endedAt set.
C36_OtherFlowsEnded ==
  \A sid \in registry :
    \A fid \in OwnFlows(heap, sid) :
      (sid # current.sessionId \/ fid # current.flowId) =>
        heap[sid].flows[fid].endedAt # NoTime

\* C37, as stated: in every reachable state the current flow, if any, has
\* endedAt unset.
C37_CurrentFlowOpen ==
  ( /\ current.flowId # NullFlow
    /\ current.sessionId \in registry
    /\ current.flowId \in OwnFlows(heap, current.sessionId) ) =>
    heap[current.sessionId].flows[current.flowId].endedAt = NoTime

\* C38: the record built from the outcome of a validation has status Valid
\* if and only if its error list is empty, and an Invalid record carries at
\* least one sentence; so has every record in every history.
C38_StatusMatchesErrors ==
  /\ validation # NoResult =>
       LET record == NewRecord(1, now, Verdict(validation), "p1")
       IN  /\ (record.ValidationStatus = "Valid") <=> (record.formattedErrorList = <<>>)
           /\ record.ValidationStatus \in {"Valid", "Invalid"}
           /\ record.ValidationStatus = "Invalid" => Len(record.formattedErrorList) >= 1
  /\ \A sid \in DOMAIN heap : \A fid \in OwnFlows(heap, sid) :
       \A k \in 1..Len(heap[sid].flows[fid].events) :
         LET record == heap[sid].flows[fid].events[k]
         IN  (record.ValidationStatus = "Valid") <=> (record.formattedErrorList = <<>>)

\* C38 witness: the schema accepted the payload and the custom rule alone
\* made the verdict Invalid, with its one sentence.
C38_Witness ==
  /\ validation # NoResult
  /\ validation.kind = "result"
  /\ validation.schemaErrors = <<>>
  /\ validation.customErrors = <<"Valid Login Required">>
  /\ schemaPaths # <<>>

====
